---- MODULE Spec2Model ----
(***************************************************************************)
(* Model of src/main.py: the HTML content fetcher actor.                   *)
(*                                                                         *)
(*   extract_price_from_html  - the price extractor (pure function)        *)
(*   is_not_found_page        - the content classifier _is_not_found_page  *)
(*   main                     - one invocation: input check, one GET,      *)
(*                              status rules, classifier, extractor, the   *)
(*                              record write, the three except clauses     *)
(*                                                                         *)
(* Text is a sequence of tokens; the token " " is whitespace.  An HTML     *)
(* body is abstracted to its length, its outer whitespace, its title, its  *)
(* visible text and the sequence (document order) of its elements that     *)
(* carry a class, a data-testid, an optional ux-textspans span and text.   *)
(***************************************************************************)
EXTENDS Integers, Sequences, FiniteSets, TLC

\* ---------------------------------------------------------------- bounds

\* Largest number of elements of a document given to the extractor alone.
MaxElems == 2

\* ------------------------------------------------------ program constants

\* len(html_content.strip()) < 500
ShortPageLimit == 500

\* html_content if len(html_content) < 10000 else None
ErrorBodyLimit == 10000

\* actor_input.get('timeout', 30)
DefaultTimeout == 30

\* ------------------------------------------------------- optional values

\* Python's None, a key that is not in the dict, and a value.
None == [tag |-> "None"]

Missing == [tag |-> "Missing"]

Some(v) == [tag |-> "Some", v |-> v]

\* A field is present when it holds a value (neither None nor a missing key).
Present(x) == x.tag = "Some"

\* Python truthiness of an optional sequence: `if x:` / `if not x:`.
Truthy_NoneOnly(x) == Present(x)

Truthy(x) == Present(x) /\ x.v # <<>>

\* ------------------------------------------------------------------ text

\* str.strip() on a token sequence: leading and trailing whitespace removed.
RECURSIVE LStrip(_)
LStrip(t) == IF t # <<>> /\ Head(t) = " " THEN LStrip(Tail(t)) ELSE t

RECURSIVE RStrip(_)
RStrip(t) ==
    IF t # <<>> /\ t[Len(t)] = " " THEN RStrip(SubSeq(t, 1, Len(t) - 1)) ELSE t

Strip(t) == RStrip(LStrip(t))

\* str.lower(), token by token.
LowerTok(tok) ==
    CASE tok = "Item" -> "item"
      [] tok = "Not" -> "not"
      [] tok = "NOT" -> "not"
      [] tok = "Found" -> "found"
      [] tok = "Page" -> "page"
      [] tok = "Error" -> "error"
      [] tok = "ERROR" -> "error"
      [] tok = "Forbidden" -> "forbidden"
      [] tok = "Shop" -> "shop"
      [] tok = "Great" -> "great"
      [] OTHER -> tok

Lower(t) == [i \in 1..Len(t) |-> LowerTok(t[i])]

\* `sub in text`: sub occurs as a contiguous run of text.
Contains(t, sub) ==
    \E i \in 0..(Len(t) - Len(sub)) :
        \A k \in 1..Len(sub) : t[i + k] = sub[k]

\* ------------------------------------------------------------ documents

PriceClass == "x-price-primary"

SpanTexts == {<<" ">>, <<" ", "$5">>}

OwnTexts == {<<>>, <<"$7", " ">>}

\* An element: tag, class attribute, data-testid attribute, an optional
\* descendant <span class="ux-textspans"> with its text, and its other text.
Elements ==
    [tag : {"div", "span"},
     cls : {PriceClass, "other"},
     testid : {PriceClass, "none"},
     span : {None} \cup {Some(t) : t \in SpanTexts},
     text : OwnTexts]

Docs == UNION {[1..n -> Elements] : n \in 0..MaxElems}

\* Tag.get_text(strip=True): every text node stripped, then concatenated.
GetText(e) ==
    (IF Present(e.span) THEN Strip(e.span.v) ELSE <<>>) \o Strip(e.text)

\* soup.find(...): the first in document order of the indices of the
\* elements that match, 0 when none does.
FirstIndex(found) ==
    IF found = {} THEN 0
    ELSE CHOOSE i \in found : \A j \in found : i <= j

IsPriceDiv(e) == e.tag = "div" /\ e.cls = PriceClass /\ e.testid = PriceClass

HasPriceClass(e) == e.cls = PriceClass

\* soup.find('div', {'class': 'x-price-primary', 'data-testid': 'x-price-primary'})
FindPriceDiv(dom) ==
    FirstIndex({i \in 1..Len(dom) : IsPriceDiv(dom[i])})

\* soup.find(class_='x-price-primary')
FindPriceAlt(dom) ==
    FirstIndex({i \in 1..Len(dom) : HasPriceClass(dom[i])})

\* The extractor without the fall through from a found but textless step-1
\* element to the document-wide search.
extract_price_no_fallthrough(dom, parseFails) ==
    IF parseFails THEN None
    ELSE LET i == FindPriceDiv(dom)
             j == FindPriceAlt(dom)
         IN  IF i # 0
             THEN IF Present(dom[i].span) THEN Some(Strip(dom[i].span.v))
                  ELSE IF GetText(dom[i]) # <<>> THEN Some(GetText(dom[i]))
                  ELSE None
             ELSE IF j # 0 /\ Present(dom[j].span) THEN Some(Strip(dom[j].span.v))
             ELSE IF j # 0 /\ GetText(dom[j]) # <<>> THEN Some(GetText(dom[j]))
             ELSE None

\* extract_price_from_html: None when the parser raises (the except clause),
\* else the span text of the step-1 element (returned as it is, empty or
\* not), else that element's non-empty text, else the same two steps on the
\* first element of class x-price-primary, else None.
extract_price_from_html(dom, parseFails) ==
    IF parseFails THEN None
    ELSE LET i == FindPriceDiv(dom)
             j == FindPriceAlt(dom)
         IN  IF i # 0 /\ Present(dom[i].span) THEN Some(Strip(dom[i].span.v))
             ELSE IF i # 0 /\ GetText(dom[i]) # <<>> THEN Some(GetText(dom[i]))
             ELSE IF j # 0 /\ Present(dom[j].span) THEN Some(Strip(dom[j].span.v))
             ELSE IF j # 0 /\ GetText(dom[j]) # <<>> THEN Some(GetText(dom[j]))
             ELSE None

\* ---------------------------------------------------------------- bodies

Titles == {None, Some(<<"Shop">>), Some(<<"ERROR">>)}

Texts == {<<>>, <<"Great", "item">>, <<"Item", "NOT", "Found">>}

PriceDiv(span, text) ==
    [tag |-> "div", cls |-> PriceClass, testid |-> PriceClass,
     span |-> span, text |-> text]

\* The documents of the responses: no element; a price div with a price
\* span; a price div whose span is blank beside other text; a price div
\* without span or text after a span of class x-price-primary only; an
\* unrelated div.
MainDocs ==
    { <<>>,
      <<PriceDiv(Some(<<" ", "$5">>), <<>>)>>,
      <<PriceDiv(Some(<<" ">>), <<"$7", " ">>)>>,
      <<[tag |-> "span", cls |-> PriceClass, testid |-> "none",
         span |-> None, text |-> <<"$7", " ">>],
        PriceDiv(None, <<>>)>>,
      <<[tag |-> "div", cls |-> "other", testid |-> PriceClass,
         span |-> Some(<<" ", "$5">>), text |-> <<>>]>> }

Lens ==
    {0, ShortPageLimit - 1, ShortPageLimit, ErrorBodyLimit - 1, ErrorBodyLimit}

\* Characters the title, the text and the elements of a body take at least.
MarkupLen(b) ==
    (IF Present(b.title) THEN 20 ELSE 0) + 10 * Len(b.text) + 60 * Len(b.dom)

\* response.text: len is len(html_content), ws the whitespace characters
\* at its two ends, which str.strip() removes.
Bodies ==
    {b \in [len : Lens, ws : 0..1, title : Titles, text : Texts, dom : MainDocs] :
        b.len >= b.ws + MarkupLen(b)}

\* len(html_content.strip())
StrippedLen(b) == b.len - b.ws

RECURSIVE DomText(_)
DomText(dom) ==
    IF dom = <<>> THEN <<>>
    ELSE (IF Present(Head(dom).span) THEN Head(dom).span.v ELSE <<>>)
         \o Head(dom).text \o DomText(Tail(dom))

\* The words of html_content, in document order.
Content(b) ==
    (IF Present(b.title) THEN b.title.v ELSE <<>>) \o b.text \o DomText(b.dom)

\* ------------------------------------------------------------ classifier

not_found_indicators ==
    { <<"page", "not", "found">>, <<"item", "not", "found">>,
      <<"product", "not", "found">>, <<"listing", "not", "found">>,
      <<"404", "error">>, <<"page", "does", "not", "exist">>,
      <<"item", "no", "longer", "available">>,
      <<"this", "listing", "has", "ended">>,
      <<"listing", "has", "been", "removed">>,
      <<"item", "has", "been", "removed">>, <<"no", "longer", "available">>,
      <<"page", "unavailable">>, <<"item", "unavailable">>,
      <<"access", "denied">>, <<"forbidden">>, <<"page", "not", "available">> }

ebay_not_found_indicators ==
    { <<"we", "looked", "everywhere">>, <<"couldn't", "find", "that", "page">>,
      <<"listing", "was", "ended">>,
      <<"item", "you", "requested", "could", "not", "be", "found">>,
      <<"this", "listing", "is", "no", "longer", "available">>,
      <<"item", "has", "ended">>, <<"page", "cannot", "be", "found">> }

all_indicators == not_found_indicators \cup ebay_not_found_indicators

title_indicators ==
    { <<"404">>, <<"not", "found">>, <<"error">>, <<"unavailable">>,
      <<"forbidden">> }

HasIndicator(b) ==
    LET content_lower == Lower(Content(b))
    IN  \E ind \in all_indicators : Contains(content_lower, ind)

HasTitleIndicator(b) ==
    /\ Present(b.title)
    /\ LET title_text == Lower(b.title.v)
       IN  \E ind \in title_indicators : Contains(title_text, ind)

\* The classifier with the status test of the short-page rule left out.
is_not_found_page_any_status(b, status_code, parseFails) ==
    IF HasIndicator(b) THEN [found |-> TRUE, raised |-> FALSE]
    ELSE IF StrippedLen(b) < ShortPageLimit
        THEN [found |-> TRUE, raised |-> FALSE]
    ELSE IF parseFails THEN [found |-> FALSE, raised |-> TRUE]
    ELSE [found |-> HasTitleIndicator(b), raised |-> FALSE]

\* The classifier failing closed: a parse exception reports a not-found page.
is_not_found_page_fail_closed(b, status_code, parseFails) ==
    IF HasIndicator(b) THEN [found |-> TRUE, raised |-> FALSE]
    ELSE IF StrippedLen(b) < ShortPageLimit /\ status_code = 200
        THEN [found |-> TRUE, raised |-> FALSE]
    ELSE IF parseFails THEN [found |-> TRUE, raised |-> TRUE]
    ELSE [found |-> HasTitleIndicator(b), raised |-> FALSE]

\* _is_not_found_page: found is the value returned; raised tells that the
\* title parse raised and the except clause returned False.  The parser is
\* reached only after the phrase scan and the short-page rule.
is_not_found_page(b, status_code, parseFails) ==
    IF HasIndicator(b) THEN [found |-> TRUE, raised |-> FALSE]
    ELSE IF StrippedLen(b) < ShortPageLimit /\ status_code = 200
        THEN [found |-> TRUE, raised |-> FALSE]
    ELSE IF parseFails THEN [found |-> FALSE, raised |-> TRUE]
    ELSE [found |-> HasTitleIndicator(b), raised |-> FALSE]

\* ------------------------------------------------------------ invocation

VARIABLES
    input,      \* actor_input: url and timeout
    pc,         \* position of main
    response,   \* the response of the GET, Missing before it
    exc,        \* the exception raised inside the try block, Missing if none
    records,    \* the dataset: the records Actor.push_data has written
    gets,       \* calls of client.get
    escaped,    \* an exception has left main
    verdict,    \* result of _is_not_found_page, Missing while not called
    price       \* result of extract_price_from_html, Missing while not called

vars == <<input, pc, response, exc, records, gets, escaped, verdict, price>>

Urls == {Missing, Some(<<>>), Some(<<"u">>)}

Timeouts == {Missing, Some(5)}

Inputs == [url : Urls, timeout : Timeouts]

StatusCodes == {200, 201, 204, 301, 400, 403, 404, 410, 451, 500}

\* dict(response.headers): with or without a content-type.
HeaderSets == {[ctype |-> Missing], [ctype |-> Some("text/html")]}

\* Outcomes of one Actor.push_data call: it returns, or it raises having
\* written nothing.
WriteOutcomes == {"ok", "raise"}

\* What client.get may raise: a timeout, another transport error, anything else.
ExcKinds == {"ReadTimeout", "ConnectError", "ValueError"}

\* The classes an exception is an instance of (httpx: TimeoutException is a
\* TransportError, which is an HTTPError).
Bases(kind) ==
    CASE kind = "ReadTimeout" -> {"TimeoutException", "HTTPError", "Exception"}
      [] kind = "ConnectError" -> {"HTTPError", "Exception"}
      [] OTHER -> {"Exception"}

\* The except clauses with HTTPError ahead of TimeoutException.
ExceptClauses_HTTPErrorFirst == <<"HTTPError", "TimeoutException", "Exception">>

\* The except clauses of main, in source order.
ExceptClauses == <<"TimeoutException", "HTTPError", "Exception">>

\* The clause that handles an exception: the first one it is an instance of.
Dispatch(kind) ==
    ExceptClauses[CHOOSE i \in 1..Len(ExceptClauses) :
        /\ ExceptClauses[i] \in Bases(kind)
        /\ \A j \in 1..(i - 1) : ExceptClauses[j] \notin Bases(kind)]

\* timeout = actor_input.get('timeout', 30)
TimeoutOf(in) == IF Present(in.timeout) THEN in.timeout.v ELSE DefaultTimeout

\* headers.get('content-type', 'unknown')
ContentType(h) == IF Present(h.ctype) THEN h.ctype ELSE Some("unknown")

\* final_url = str(response.url)
FinalUrl(in) == Some(<<"final">>)

\* --------------------------------------------------------------- records

\* A dict with none of the keys the records use.
NoKeys ==
    [success |-> FALSE, error |-> Missing, url |-> Missing, final_url |-> Missing,
     html_content |-> Missing, price |-> Missing, price_found |-> FALSE,
     status_code |-> Missing, headers |-> Missing, content_length |-> Missing,
     content_type |-> Missing, page_exists |-> FALSE]

MissingUrlRecord ==
    [NoKeys EXCEPT !.error = Some(<<"Missing \"url\" attribute in input!">>),
                   !.url = None, !.html_content = None, !.price = None,
                   !.status_code = None, !.headers = None]

\* The keys the four failure records of a received response share.
ResponseFailure(in, r, error, html) ==
    [NoKeys EXCEPT !.error = Some(error), !.url = in.url,
                   !.final_url = FinalUrl(in), !.html_content = html,
                   !.price = None, !.status_code = Some(r.status),
                   !.content_type = ContentType(r.headers)]

NotFoundRecord(in, r) ==
    ResponseFailure(in, r, <<"Page not found (404)">>, None)

UnavailableRecord(in, r) ==
    ResponseFailure(in, r,
        <<"Page unavailable (HTTP", ToString(r.status), ")">>, None)

\* The generic error record with the body kept whatever its length.
ClientServerErrorRecord_AnyLength(in, r) ==
    ResponseFailure(in, r,
        <<"Client/Server error (HTTP", ToString(r.status), ")">>, Some(r.body))

\* 'html_content': html_content if len(html_content) < 10000 else None
ClientServerErrorRecord(in, r) ==
    ResponseFailure(in, r,
        <<"Client/Server error (HTTP", ToString(r.status), ")">>,
        IF r.body.len < ErrorBodyLimit THEN Some(r.body) ELSE None)

ContentNotFoundRecord(in, r) ==
    ResponseFailure(in, r,
        <<"Page not found or unavailable (detected from content)">>, None)

\* The result with the body kept beside a found price.
ResultRecord_KeepsHtml(in, r, extracted_price) ==
    [NoKeys EXCEPT !.success = TRUE, !.error = None, !.url = in.url,
                   !.final_url = FinalUrl(in),
                   !.html_content = Some(r.body),
                   !.price = IF Truthy(extracted_price)
                             THEN extracted_price ELSE None,
                   !.price_found = Truthy(extracted_price),
                   !.status_code = Some(r.status),
                   !.content_type = ContentType(r.headers),
                   !.page_exists = TRUE]

\* `result`: the price record (no html_content key) when extracted_price is
\* truthy, else the content record with the body, headers and length.
ResultRecord(in, r, extracted_price) ==
    IF Truthy(extracted_price)
    THEN [NoKeys EXCEPT !.success = TRUE, !.error = None, !.url = in.url,
                        !.final_url = FinalUrl(in), !.price = extracted_price,
                        !.price_found = TRUE, !.status_code = Some(r.status),
                        !.content_type = ContentType(r.headers),
                        !.page_exists = TRUE]
    ELSE [NoKeys EXCEPT !.success = TRUE, !.error = None, !.url = in.url,
                        !.final_url = FinalUrl(in),
                        !.html_content = Some(r.body), !.price = None,
                        !.status_code = Some(r.status),
                        !.headers = Some(r.headers),
                        !.content_length = Some(r.body.len),
                        !.content_type = ContentType(r.headers),
                        !.page_exists = TRUE]

\* The keys the records of the three except clauses share.
ExceptionRecord(in, error) ==
    [NoKeys EXCEPT !.error = Some(error), !.url = in.url, !.final_url = None,
                   !.html_content = None, !.price = None, !.status_code = None,
                   !.headers = None, !.content_length = Some(0),
                   !.content_type = None]

\* The record of the clause that handles exception e.  No exception that
\* client.get raises carries a response (raise_for_status is never called),
\* so the HTTPError clause finds no status code.
HandlerRecord(in, e) ==
    CASE Dispatch(e.kind) = "TimeoutException" ->
            ExceptionRecord(in,
                <<"Request timeout after", ToString(TimeoutOf(in)), "seconds">>)
      [] Dispatch(e.kind) = "HTTPError" ->
            ExceptionRecord(in, <<"HTTP error occurred:", e.kind>>)
      [] OTHER ->
            ExceptionRecord(in, <<"Unexpected error occurred:", e.kind>>)

\* --------------------------------------------------------------- actions

\* await Actor.push_data(rec), outcome w.  Inside the try block a raise goes
\* to the except clauses; in the missing-url branch and inside an except
\* clause nothing catches it and it leaves main.  After a write that
\* returns, main ends (return, or the end of the block).
Push(rec, w, inBlock) ==
    IF w = "ok"
    THEN /\ records' = Append(records, rec)
         /\ pc' = "done"
         /\ UNCHANGED <<exc, escaped>>
    ELSE IF inBlock
    THEN /\ exc' = Some([kind |-> "RuntimeError", origin |-> "write"])
         /\ pc' = "handler"
         /\ UNCHANGED <<records, escaped>>
    ELSE /\ escaped' = TRUE
         /\ pc' = "done"
         /\ UNCHANGED <<records, exc>>

\* url = actor_input.get('url'); if not url: push the error record, return.
CheckInput(w) ==
    /\ pc = "start"
    /\ IF ~Truthy(input.url)
       THEN Push(MissingUrlRecord, w, FALSE)
       ELSE /\ w = "ok"
            /\ pc' = "request"
            /\ UNCHANGED <<records, exc, escaped>>
    /\ UNCHANGED <<input, response, gets, verdict, price>>

\* response = await client.get(url) returns a response.
GetResponds ==
    /\ pc = "request"
    /\ \E status \in StatusCodes, body \in Bodies, headers \in HeaderSets :
        response' = Some([status |-> status, body |-> body, headers |-> headers])
    /\ gets' = gets + 1
    /\ pc' = "response"
    /\ UNCHANGED <<input, exc, records, escaped, verdict, price>>

\* response = await client.get(url) raises.
GetRaises ==
    /\ pc = "request"
    /\ \E kind \in ExcKinds : exc' = Some([kind |-> kind, origin |-> "get"])
    /\ gets' = gets + 1
    /\ pc' = "handler"
    /\ UNCHANGED <<input, response, records, escaped, verdict, price>>

BlockedCodes_Without451 == {403, 410}

\* elif status_code in [403, 410, 451]
BlockedCodes == {403, 410, 451}

\* The status rules: 404, the blocked codes and every other code from 400
\* write their record and return; below 400 main goes on to the classifier.
HandleStatus(w) ==
    /\ pc = "response"
    /\ LET r == response.v
       IN  IF r.status = 404 THEN Push(NotFoundRecord(input, r), w, TRUE)
           ELSE IF r.status \in BlockedCodes
               THEN Push(UnavailableRecord(input, r), w, TRUE)
           ELSE IF r.status >= 400
               THEN Push(ClientServerErrorRecord(input, r), w, TRUE)
           ELSE /\ w = "ok"
                /\ pc' = "classify"
                /\ UNCHANGED <<records, exc, escaped>>
    /\ UNCHANGED <<input, response, gets, verdict, price>>

\* if _is_not_found_page(html_content, status_code): push, return.
Classify(w, parseFails) ==
    /\ pc = "classify"
    /\ LET r == response.v
           v == is_not_found_page(r.body, r.status, parseFails)
       IN  /\ verdict' = Some(v)
           /\ IF v.found
              THEN Push(ContentNotFoundRecord(input, r), w, TRUE)
              ELSE /\ w = "ok"
                   /\ pc' = "extract"
                   /\ UNCHANGED <<records, exc, escaped>>
    /\ UNCHANGED <<input, response, gets, price>>

\* extracted_price = extract_price_from_html(html_content); build result;
\* await Actor.push_data(result).
Extract(w, parseFails) ==
    /\ pc = "extract"
    /\ LET r == response.v
           extracted_price == extract_price_from_html(r.body.dom, parseFails)
       IN  /\ price' = extracted_price
           /\ Push(ResultRecord(input, r, extracted_price), w, TRUE)
    /\ UNCHANGED <<input, response, gets, verdict>>

\* The except clause that handles the exception writes its record.
Handle(w) ==
    /\ pc = "handler"
    /\ IF w = "ok"
       THEN /\ records' = Append(records, HandlerRecord(input, exc.v))
            /\ UNCHANGED escaped
       ELSE /\ escaped' = TRUE
            /\ UNCHANGED records
    /\ pc' = "done"
    /\ UNCHANGED <<input, response, exc, gets, verdict, price>>

\* One step of main with write outcome w.
Step(w) ==
    \/ CheckInput(w)
    \/ HandleStatus(w)
    \/ \E parseFails \in BOOLEAN : Classify(w, parseFails)
    \/ \E parseFails \in BOOLEAN : Extract(w, parseFails)
    \/ Handle(w)

Init ==
    /\ input \in Inputs
    /\ pc = "start"
    /\ response = Missing
    /\ exc = Missing
    /\ records = <<>>
    /\ gets = 0
    /\ escaped = FALSE
    /\ verdict = Missing
    /\ price = Missing

\* The dataset write always returns.
Next == Step("ok") \/ GetResponds \/ GetRaises

Spec == Init /\ [][Next]_vars

\* The dataset write may raise.
NextWriteFaults ==
    (\E w \in WriteOutcomes : Step(w)) \/ GetResponds \/ GetRaises

SpecWriteFaults == Init /\ [][NextWriteFaults]_vars

\* The extractor alone, on every document of at most MaxElems elements.
InitExtract ==
    /\ input = [url |-> Some(<<"u">>), timeout |-> Missing]
    /\ pc = "extract"
    /\ \E dom \in Docs :
        response = Some([status |-> 200,
                         body |-> [len |-> ErrorBodyLimit, ws |-> 0,
                                   title |-> None, text |-> <<>>, dom |-> dom],
                         headers |-> [ctype |-> Missing]])
    /\ exc = Missing
    /\ records = <<>>
    /\ gets = 1
    /\ escaped = FALSE
    /\ verdict = Some([found |-> FALSE, raised |-> FALSE])
    /\ price = Missing

\* The parser does not raise here: the result is decided by the lookups.
NextExtract == Extract("ok", FALSE)

SpecExtract == InitExtract /\ [][NextExtract]_vars

\* ---------------------------------------------------------------- claims

Done == pc = "done"

\* The documents and elements the extractor claims speak of.
Dom == response.v.body.dom

\* An element with no ux-textspans span and no text of its own.
Textless(e) == ~Present(e.span) /\ GetText(e) = <<>>

\* What steps 2 and 3 yield on one element: its span's stripped text if it
\* has the span, else its own non-empty text, else nothing.
FromElement(e) ==
    IF Present(e.span) THEN Some(Strip(e.span.v))
    ELSE IF GetText(e) # <<>> THEN Some(GetText(e))
    ELSE None

\* C1 (SpecWriteFaults): every invocation that has ended has written
\* exactly one record and let no exception leave main.
C1_ExactlyOneRecordNoEscape == Done => (Len(records) = 1 /\ ~escaped)

\* C2 as stated: in every record written, price_found implies html_content
\* absent, and html_content present implies price absent and page_exists.
C2_RecordInvariant ==
    \A i \in 1..Len(records) :
        LET r == records[i]
        IN  /\ r.price_found => ~Present(r.html_content)
            /\ Present(r.html_content) => (~Present(r.price) /\ r.page_exists)

\* C2 amended: price_found implies html_content absent; html_content
\* present implies price absent; html_content present implies page_exists
\* except in the record of a status from 400 other than 403, 404, 410 and
\* 451, which has success and page_exists false and keeps the body exactly
\* when the body is shorter than 10000 characters.
C2_RecordInvariantAmended ==
    \A i \in 1..Len(records) :
        LET r == records[i]
            generic == /\ Present(r.status_code)
                       /\ r.status_code.v >= 400
                       /\ r.status_code.v \notin {403, 404, 410, 451}
        IN  /\ r.price_found => ~Present(r.html_content)
            /\ Present(r.html_content) => ~Present(r.price)
            /\ (Present(r.html_content) /\ ~generic) => r.page_exists
            /\ generic =>
                /\ ~r.success /\ ~r.page_exists
                /\ Present(r.html_content) <=> response.v.body.len < 10000
                /\ Present(r.html_content) => r.html_content.v = response.v.body

C2_Witness ==
    /\ Done
    /\ Len(records) = 1
    /\ Present(records[1].html_content)
    /\ ~records[1].page_exists

\* C3: every record with success = true holds exactly one of price and
\* html_content.
C3_ExactlyOneOfPriceAndHtml ==
    \A i \in 1..Len(records) :
        records[i].success =>
            (Present(records[i].price) <=> ~Present(records[i].html_content))

\* The extractor returned the empty string and the content record was written.
C3_Witness ==
    /\ Done
    /\ Present(price) /\ price.v = <<>>
    /\ Len(records) = 1
    /\ records[1].success
    /\ Present(records[1].html_content)

\* C4: for a response of status 403, 404, 410 or 451 neither the classifier
\* nor the extractor is called, every record written has success and
\* page_exists false and no html_content, and one record is written.
C4_BlockedStatusRecord ==
    (Present(response) /\ response.v.status \in {403, 404, 410, 451}) =>
        /\ ~Present(verdict)
        /\ price = Missing
        /\ Done => Len(records) = 1
        /\ \A i \in 1..Len(records) :
            /\ ~records[i].success
            /\ ~records[i].page_exists
            /\ ~Present(records[i].html_content)

\* A 451 whose body is long and holds a valid price element.
C4_Witness ==
    /\ Done
    /\ Present(response)
    /\ response.v.status = 451
    /\ response.v.body.len > 500
    /\ Truthy(extract_price_from_html(response.v.body.dom, FALSE))
    /\ Len(records) = 1

\* C5: once the classifier has run on a body with no indicator phrase and no
\* title indicator, it reported not-found exactly when the status is 200 and
\* the stripped length is under 500; then the record has success and
\* page_exists false, and otherwise the page went on as valid.
C5_ShortPageOnlyFor200 ==
    (/\ Present(verdict)
     /\ ~HasIndicator(response.v.body)
     /\ ~HasTitleIndicator(response.v.body)) =>
        LET short == /\ response.v.status = 200
                     /\ response.v.body.len - response.v.body.ws < 500
        IN  /\ verdict.v.found <=> short
            /\ (Done /\ short) =>
                /\ Len(records) = 1
                /\ ~records[1].success
                /\ ~records[1].page_exists
            /\ (Done /\ ~short) =>
                /\ Len(records) = 1
                /\ records[1].success

\* A 200 body of 500 characters, one of them outer whitespace.
C5_Witness ==
    /\ Done
    /\ Present(verdict)
    /\ response.v.status = 200
    /\ response.v.body.len = 500
    /\ response.v.body.ws = 1
    /\ ~HasIndicator(response.v.body)
    /\ ~HasTitleIndicator(response.v.body)
    /\ Len(records) = 1

\* C6 (SpecExtract): the extractor returns a non-empty string or nothing.
C6_NonEmptyOrAbsent ==
    (Done /\ price # Missing) => (~Present(price) \/ price.v # <<>>)

\* C7: when the GET timed out, the record written has success false, the
\* error of the timeout clause with the configured timeout in it, no
\* status code and page_exists false.
C7_TimeoutRecord ==
    (Done /\ Present(exc) /\ exc.v.origin = "get" /\ exc.v.kind = "ReadTimeout") =>
        /\ Len(records) = 1
        /\ ~records[1].success
        /\ records[1].error =
            Some(<<"Request timeout after",
                   ToString(IF Present(input.timeout)
                            THEN input.timeout.v ELSE 30),
                   "seconds">>)
        /\ ~Present(records[1].status_code)
        /\ ~records[1].page_exists

C7_Witness ==
    /\ Done
    /\ Present(exc)
    /\ exc.v.kind = "ReadTimeout"
    /\ Present(input.timeout)
    /\ Len(records) = 1

\* C8: at most one GET is ever issued; none when url is missing or empty,
\* whose error record is then written; exactly one by the end otherwise.
C8_RequestCount ==
    LET noUrl == ~Present(input.url) \/ input.url.v = <<>>
    IN  /\ gets <= 1
        /\ noUrl => gets = 0
        /\ (Done /\ noUrl) => Len(records) = 1
        /\ (Done /\ ~noUrl) => gets = 1

\* The empty url: the record is written and no request was made.
C8_Witness ==
    /\ Done
    /\ Present(input.url)
    /\ input.url.v = <<>>
    /\ gets = 0
    /\ Len(records) = 1

\* C9 as stated (SpecExtract): when step 1 finds an element that yields no
\* text, the result is absent.
C9_NoFallbackAfterStep1 ==
    (Done /\ FindPriceDiv(Dom) # 0 /\ Textless(Dom[FindPriceDiv(Dom)])) =>
        ~Present(price)

\* C9 amended (SpecExtract): when step 1 finds an element with a span or
\* text, the result comes from that element alone; when step 1 finds a
\* textless element, or none, the result is what steps 2 and 3 yield on the
\* first element of class x-price-primary in document order, if any.
C9_FallbackAfterTextlessStep1 ==
    Done =>
        LET i == FindPriceDiv(Dom)
            j == FindPriceAlt(Dom)
        IN  IF i # 0 /\ ~Textless(Dom[i]) THEN price = FromElement(Dom[i])
            ELSE IF j # 0 THEN price = FromElement(Dom[j])
            ELSE price = None

\* Step 1 found a textless element and a price was returned all the same.
C9_Witness ==
    /\ Done
    /\ FindPriceDiv(Dom) # 0
    /\ Textless(Dom[FindPriceDiv(Dom)])
    /\ Present(price)

\* C10: when the classifier's parse raised, it returned False, main went on
\* to the extractor, and the record written has success and page_exists true.
C10_ClassifierFailsOpen ==
    (Present(verdict) /\ verdict.v.raised) =>
        /\ ~verdict.v.found
        /\ pc \in {"extract", "done"}
        /\ Done =>
            /\ price # Missing
            /\ Len(records) = 1
            /\ records[1].success
            /\ records[1].page_exists

C10_Witness ==
    /\ Done
    /\ Present(verdict)
    /\ verdict.v.raised
    /\ Len(records) = 1
    /\ records[1].success

====
